---- MODULE Spec2Model ----
(***************************************************************************)
(* Model of mnist.py: the command-line resolver (parse_args), the cluster  *)
(* descriptor builder (make_tf_config), the script body (__main__) and the *)
(* train/eval/predict dispatch (model_fn).                                 *)
(*                                                                         *)
(* Text is a sequence of tokens; ":" and "," are always tokens of their    *)
(* own, so that str.split is computed on the text and not assumed.         *)
(* Python lists live in a heap, addressed by reference, so that two names  *)
(* bound to the same list object see each other's item assignments.        *)
(***************************************************************************)
EXTENDS Integers, Sequences, FiniteSets, TLC

VARIABLES pc, argv, opts, heap, TF_CONFIG, warnings, error, environ,
          env_writes, estimator_spec, graph, cluster, nodes

vars == <<pc, argv, opts, heap, TF_CONFIG, warnings, error, environ,
          env_writes, estimator_spec, graph, cluster, nodes>>

\* ------------------------------------------------------------------ bounds
MaxHosts == 2
MaxIndex == 2

\* ------------------------------------------------------------- Python text
\* None where a string is expected (job_name), and None where an object is
None == "None"
PyNone == [none |-> TRUE]

\* str.split(sep): one part more than there are separators, empty parts kept
RECURSIVE split(_, _)
split(s, sep) ==
    IF \E i \in 1..Len(s) : s[i] = sep
    THEN LET i == CHOOSE k \in 1..Len(s) :
                     s[k] = sep /\ \A j \in 1..(k - 1) : s[j] # sep
         IN  <<SubSeq(s, 1, i - 1)>> \o split(SubSeq(s, i + 1, Len(s)), sep)
    ELSE <<s>>

\* sep.join(list): how a host list is written on the command line
RECURSIVE join(_, _)
join(list, sep) ==
    IF list = <<>> THEN <<>>
    ELSE IF Len(list) = 1 THEN list[1]
    ELSE list[1] \o <<sep>> \o join(Tail(list), sep)

\* list[i] with Python's indexing: 0-based, negative counts from the end.
\* The 1-based position, or 0 when the index is out of range (IndexError).
PyPos(list, i) ==
    IF i >= 0 /\ i < Len(list) THEN i + 1
    ELSE IF i < 0 /\ -i <= Len(list) THEN Len(list) + i + 1
    ELSE 0

\* ------------------------------------------------------------------ inputs
HostPool == { <<"a", ":", "1">>, <<"b", ":", "2">>, <<"c">>,
              <<"a", ":", "1", ":", "2">> }

HostLists == UNION { [1..n -> HostPool] : n \in 0..MaxHosts }

JobChoices == {"worker", "ps"}

\* --job_name on the command line, JOB_NAME in the environment, or neither
JobInputs ==
    { [src |-> "none", job_name |-> None] }
    \cup [src : {"cli", "env"}, job_name : JobChoices \cup {"chief"}]

TaskIndexes == -1..MaxIndex

Argv == [job : JobInputs, task_index : TaskIndexes,
         ps_hosts : {join(l, ",") : l \in HostLists},
         worker_hosts : {join(l, ",") : l \in HostLists}]

NoOpts == [job_name |-> None, task_index |-> 0, ps_hosts |-> None,
           worker_hosts |-> None]

\* --------------------------------------------------------------- parse_args
\* argparse checks choices for a value given on the command line only; a
\* default (here the JOB_NAME environment variable) is taken as it is.
ArgparseRejects(a) == a.job.src = "cli" /\ a.job.job_name \notin JobChoices

hosts_of(raw) == IF raw # <<>> THEN split(raw, ",") ELSE <<>>

parse_args_opts(a) ==
    [job_name |-> a.job.job_name, task_index |-> a.task_index,
     ps_hosts |-> "P", worker_hosts |-> "W"]

parse_args_heap(a) ==
    ("W" :> hosts_of(a.worker_hosts)) @@ ("P" :> hosts_of(a.ps_hosts))

\* ----------------------------------------------------------- make_tf_config
EmptyDescriptor == [keys |-> {}]

WarnIncomplete ==
    [text |-> "Distributed setting is incomplete. You must pass job_name, ps_hosts, and worker_hosts."]
WarnJobName(v) ==
    [text |-> "Expected job_name of worker or ps. Received {}.", arg |-> v]
WarnPsHosts(v) ==
    [text |-> "Expected ps_hosts, list of hostname:port pairs. Got {}. ", arg |-> v]
WarnWorkerHosts(v) ==
    [text |-> "Expected worker_hosts, list of hostname:port pairs. Got {}. ", arg |-> v]
WarnIgnoring ==
    [text |-> "Ignoring distributed arguments. Running single mode."]

Unset(o, h) ==
    <<o.job_name = None, h[o.ps_hosts] = <<>>, h[o.worker_hosts] = <<>>>>

\* mutant: the check of ps_hosts is left out
incomplete_warnings_no_ps_check(o, h) ==
    <<WarnIncomplete>>
    \o (IF o.job_name = None THEN <<WarnJobName(o.job_name)>> ELSE <<>>)
    \o (IF h[o.worker_hosts] = <<>>
        THEN <<WarnWorkerHosts(h[o.worker_hosts])>> ELSE <<>>)
    \o <<WarnIgnoring>>

incomplete_warnings(o, h) ==
    <<WarnIncomplete>>
    \o (IF o.job_name = None THEN <<WarnJobName(o.job_name)>> ELSE <<>>)
    \o (IF h[o.ps_hosts] = <<>> THEN <<WarnPsHosts(h[o.ps_hosts])>> ELSE <<>>)
    \o (IF h[o.worker_hosts] = <<>>
        THEN <<WarnWorkerHosts(h[o.worker_hosts])>> ELSE <<>>)
    \o <<WarnIgnoring>>

Returned(d, h, w) == [raised |-> "none", ret |-> d, heap |-> h, warnings |-> w]
Raised(e, h) == [raised |-> e, ret |-> PyNone, heap |-> h, warnings |-> <<>>]

LocalhostPrefix == <<"localhost", ":">>

\* mutant: 'master': opts.worker_hosts, the whole worker list
new_tf_config_master_is_workers(o) ==
    [keys |-> {"task", "cluster", "environment"},
     task |-> [type |-> o.job_name, index |-> o.task_index],
     cluster |-> [master |-> o.worker_hosts, worker |-> o.worker_hosts,
                  ps |-> o.ps_hosts],
     environment |-> "cloud"]

\* the dict literal of lines 116-127: master is a new list, worker and ps
\* are the very list objects of opts
new_tf_config(o) ==
    [keys |-> {"task", "cluster", "environment"},
     task |-> [type |-> o.job_name, index |-> o.task_index],
     cluster |-> [master |-> "M", worker |-> o.worker_hosts, ps |-> o.ps_hosts],
     environment |-> "cloud"]

\* mutant: split(':')[0], the host name instead of the port
local_ip_from_host(parts) == LocalhostPrefix \o parts[1]

\* 'localhost:' + entry.split(':')[1]
local_ip_from(parts) == LocalhostPrefix \o parts[2]

\* mutant: the job name is not looked at
is_master_any_role(o) == o.task_index = 0

is_master(o) == o.job_name = "worker" /\ o.task_index = 0

\* mutant: the role is re-tagged, the master list is left as it was
promote_tag_only(cfg, h, ip) ==
    Returned([cfg EXCEPT !.task.type = "master"], h, <<>>)

\* lines 133-134
promote(cfg, h, ip) ==
    Returned([cfg EXCEPT !.task.type = "master"],
             [h EXCEPT ![cfg.cluster.master][1] = ip], <<>>)

\* lines 129-135, the heap holding the new master list already
rewrite_local(o, h) ==
    LET cfg  == new_tf_config(o)
        role == o.job_name
    IN  IF role \notin DOMAIN cfg.cluster THEN Raised("KeyError", h)
        ELSE
        LET ref == cfg.cluster[role]
            pos == PyPos(h[ref], o.task_index)
        IN  IF pos = 0 THEN Raised("IndexError", h)
            ELSE
            LET parts == split(h[ref][pos], ":")
            IN  IF Len(parts) < 2 THEN Raised("IndexError", h)
                ELSE
                LET local_ip == local_ip_from(parts)
                    h1 == [h EXCEPT ![ref][pos] = local_ip]
                IN  IF is_master(o) THEN promote(cfg, h1, local_ip)
                    ELSE Returned(cfg, h1, <<>>)

\* mutant: any() is tested before all()
make_tf_config_any_first(o, h) ==
    LET u == Unset(o, h)
    IN  IF u[1] \/ u[2] \/ u[3]
        THEN Returned(EmptyDescriptor, h, incomplete_warnings(o, h))
        ELSE rewrite_local(o, h @@ ("M" :> <<h[o.worker_hosts][1]>>))

make_tf_config(o, h) ==
    LET u == Unset(o, h)
    IN  IF u[1] /\ u[2] /\ u[3] THEN Returned(EmptyDescriptor, h, <<>>)
        ELSE IF u[1] \/ u[2] \/ u[3]
        THEN Returned(EmptyDescriptor, h, incomplete_warnings(o, h))
        ELSE rewrite_local(o, h @@ ("M" :> <<h[o.worker_hosts][1]>>))

\* --------------------------------------------------------------- json.dumps
Digits == <<"0", "1", "2", "3", "4", "5", "6", "7", "8", "9">>

RECURSIVE dumps_nat(_)
dumps_nat(n) ==
    IF n < 10 THEN <<Digits[n + 1]>>
    ELSE dumps_nat(n \div 10) \o <<Digits[(n % 10) + 1]>>

dumps_int(n) == IF n < 0 THEN <<"-">> \o dumps_nat(-n) ELSE dumps_nat(n)

\* no token of the model's text needs a JSON escape
dumps_str(s) == <<"\"">> \o s \o <<"\"">>

dumps_list(l) ==
    <<"[">> \o join([i \in 1..Len(l) |-> dumps_str(l[i])], ", ") \o <<"]">>

\* members in insertion order, separators ", " and ": " (the defaults)
json_dumps(d, h) ==
    IF d.keys = {} THEN <<"{", "}">>
    ELSE <<"{">>
         \o dumps_str(<<"task">>) \o <<": ", "{">>
             \o dumps_str(<<"type">>) \o <<": ">> \o dumps_str(<<d.task.type>>)
             \o <<", ">>
             \o dumps_str(<<"index">>) \o <<": ">> \o dumps_int(d.task.index)
             \o <<"}", ", ">>
         \o dumps_str(<<"cluster">>) \o <<": ", "{">>
             \o dumps_str(<<"master">>) \o <<": ">>
             \o dumps_list(h[d.cluster.master]) \o <<", ">>
             \o dumps_str(<<"worker">>) \o <<": ">>
             \o dumps_list(h[d.cluster.worker]) \o <<", ">>
             \o dumps_str(<<"ps">>) \o <<": ">>
             \o dumps_list(h[d.cluster.ps])
             \o <<"}", ", ">>
         \o dumps_str(<<"environment">>) \o <<": ">>
             \o dumps_str(<<d.environment>>)
         \o <<"}">>

\* ----------------------------------------------------------------- model_fn
PREDICT == "infer"
EVAL == "eval"
TRAIN == "train"
ModeKeys == {TRAIN, EVAL, PREDICT}

Tensor(name) == [op |-> name]

\* EstimatorSpec(mode, predictions=None, loss=None, train_op=None,
\*               eval_metric_ops=None)
EstimatorSpec(mode, predictions, loss, eval_metric_ops, train_op) ==
    [mode |-> mode, predictions |-> predictions, loss |-> loss,
     eval_metric_ops |-> eval_metric_ops, train_op |-> train_op]

ForwardOps == {"input_image", "cnn", "dropout", "average", "dense", "argmax"}
LossOps == {"cross_entropy", "loss", "accuracy"}
TrainOps == {"AdamOptimizer", "global_step", "minimize"}

\* mutant: the optimizer is built before the EVAL return
model_fn_optimizer_early(mode) ==
    LET logits  == Tensor("dense")
        pred    == Tensor("argmax")
        loss    == Tensor("loss")
        metrics == [accuracy |-> Tensor("accuracy")]
    IN  IF mode = PREDICT
        THEN [ret |-> EstimatorSpec(mode, [logits |-> logits, pred |-> pred],
                                    PyNone, PyNone, PyNone),
              ops |-> ForwardOps]
        ELSE IF mode = EVAL
        THEN [ret |-> EstimatorSpec(mode, PyNone, loss, metrics, PyNone),
              ops |-> ForwardOps \cup LossOps \cup TrainOps]
        ELSE IF mode = TRAIN
        THEN [ret |-> EstimatorSpec(mode, PyNone, loss, PyNone,
                                    Tensor("minimize")),
              ops |-> ForwardOps \cup LossOps \cup TrainOps]
        ELSE [ret |-> PyNone, ops |-> ForwardOps \cup LossOps \cup TrainOps]

\* what the call returns, and the graph operations it has created by then
model_fn(mode) ==
    LET logits  == Tensor("dense")
        pred    == Tensor("argmax")
        loss    == Tensor("loss")
        metrics == [accuracy |-> Tensor("accuracy")]
    IN  IF mode = PREDICT
        THEN [ret |-> EstimatorSpec(mode, [logits |-> logits, pred |-> pred],
                                    PyNone, PyNone, PyNone),
              ops |-> ForwardOps]
        ELSE IF mode = EVAL
        THEN [ret |-> EstimatorSpec(mode, PyNone, loss, metrics, PyNone),
              ops |-> ForwardOps \cup LossOps]
        ELSE IF mode = TRAIN
        THEN [ret |-> EstimatorSpec(mode, PyNone, loss, PyNone,
                                    Tensor("minimize")),
              ops |-> ForwardOps \cup LossOps \cup TrainOps]
        ELSE [ret |-> PyNone, ops |-> ForwardOps \cup LossOps \cup TrainOps]

\* ------------------------------------------------------------------ script
Init ==
    /\ pc = "start"
    /\ argv \in Argv
    /\ opts = NoOpts
    /\ heap = <<>>
    /\ TF_CONFIG = PyNone
    /\ warnings = <<>>
    /\ error = "none"
    /\ environ = <<>>
    /\ env_writes = 0
    /\ estimator_spec = PyNone
    /\ graph = {}
    /\ cluster = PyNone
    /\ nodes = <<>>

ParseArgs ==
    /\ pc = "start"
    /\ IF ArgparseRejects(argv)
       THEN /\ pc' = "exit"
            /\ error' = "SystemExit"
            /\ UNCHANGED <<opts, heap>>
       ELSE /\ pc' = "parsed"
            /\ opts' = parse_args_opts(argv)
            /\ heap' = parse_args_heap(argv)
            /\ UNCHANGED error
    /\ UNCHANGED <<argv, TF_CONFIG, warnings, environ, env_writes,
                   estimator_spec, graph, cluster, nodes>>

MakeTfConfig ==
    /\ pc = "parsed"
    /\ LET r == make_tf_config(opts, heap)
       IN  /\ heap' = r.heap
           /\ warnings' = warnings \o r.warnings
           /\ IF r.raised = "none"
              THEN /\ pc' = "configured"
                   /\ TF_CONFIG' = r.ret
                   /\ UNCHANGED error
              ELSE /\ pc' = "crashed"
                   /\ error' = r.raised
                   /\ UNCHANGED TF_CONFIG
    /\ UNCHANGED <<argv, opts, environ, env_writes, estimator_spec, graph,
                   cluster, nodes>>

\* mutant: the variable is assigned in distributed mode only
SetEnviron_distributed_only ==
    /\ pc = "configured"
    /\ pc' = "env_set"
    /\ IF TF_CONFIG = EmptyDescriptor
       THEN UNCHANGED <<environ, env_writes>>
       ELSE /\ environ' = ("TF_CONFIG" :> json_dumps(TF_CONFIG, heap)) @@ environ
            /\ env_writes' = env_writes + 1
    /\ UNCHANGED <<argv, opts, heap, TF_CONFIG, warnings, error,
                   estimator_spec, graph, cluster, nodes>>

SetEnviron ==
    /\ pc = "configured"
    /\ pc' = "env_set"
    /\ environ' = ("TF_CONFIG" :> json_dumps(TF_CONFIG, heap)) @@ environ
    /\ env_writes' = env_writes + 1
    /\ UNCHANGED <<argv, opts, heap, TF_CONFIG, warnings, error,
                   estimator_spec, graph, cluster, nodes>>

\* main(args): the estimator is built and train_and_evaluate begins
Main ==
    /\ pc = "env_set"
    /\ pc' = "training"
    /\ UNCHANGED <<argv, opts, heap, TF_CONFIG, warnings, error, environ,
                   env_writes, estimator_spec, graph, cluster, nodes>>

\* the estimator calls model_fn, each time in a graph of its own
ModelFn(mode) ==
    /\ pc = "training"
    /\ estimator_spec' = model_fn(mode).ret
    /\ graph' = model_fn(mode).ops
    /\ UNCHANGED <<pc, argv, opts, heap, TF_CONFIG, warnings, error, environ,
                   env_writes, cluster, nodes>>

Next ==
    \/ ParseArgs
    \/ MakeTfConfig
    \/ SetEnviron
    \/ Main
    \/ \E mode \in ModeKeys : ModelFn(mode)

Spec == Init /\ [][Next]_vars

\* ----------------------------------------------------------------- cluster
\* One process per (job_name, task_index) pair, all started with the same
\* host lists; each process has its own opts and its own heap.
NodeIds(cl) ==
    { <<"worker", i>> : i \in 0..(Len(hosts_of(cl.worker_hosts)) - 1) }
    \cup { <<"ps", i>> : i \in 0..(Len(hosts_of(cl.ps_hosts)) - 1) }

NodeArgv(cl, n) ==
    [job |-> [src |-> "cli", job_name |-> n[1]], task_index |-> n[2],
     ps_hosts |-> cl.ps_hosts, worker_hosts |-> cl.worker_hosts]

Clusters ==
    { cl \in [worker_hosts : {join(l, ",") : l \in HostLists},
              ps_hosts : {join(l, ",") : l \in HostLists}] :
        NodeIds(cl) # {} }

InitCluster ==
    /\ cluster \in Clusters
    /\ nodes = [n \in NodeIds(cluster) |->
                  [pc |-> "start", heap |-> <<>>, TF_CONFIG |-> PyNone,
                   error |-> "none"]]
    /\ pc = "cluster"
    /\ argv = PyNone
    /\ opts = NoOpts
    /\ heap = <<>>
    /\ TF_CONFIG = PyNone
    /\ warnings = <<>>
    /\ error = "none"
    /\ environ = <<>>
    /\ env_writes = 0
    /\ estimator_spec = PyNone
    /\ graph = {}

\* node n runs the script through line 234
NodeMakeTfConfig(n) ==
    /\ nodes[n].pc = "start"
    /\ LET a == NodeArgv(cluster, n)
           r == make_tf_config(parse_args_opts(a), parse_args_heap(a))
       IN  nodes' = [nodes EXCEPT ![n] =
                       [pc |-> IF r.raised = "none" THEN "configured"
                               ELSE "crashed",
                        heap |-> r.heap, TF_CONFIG |-> r.ret,
                        error |-> r.raised]]
    /\ UNCHANGED <<pc, argv, opts, heap, TF_CONFIG, warnings, error, environ,
                   env_writes, estimator_spec, graph, cluster>>

NextCluster == \E n \in DOMAIN nodes : NodeMakeTfConfig(n)

SpecCluster == InitCluster /\ [][NextCluster]_vars

\* ================================================================== claims
\* the arguments make_tf_config is called with, as parse_args left them
in_job == argv.job.job_name
in_index == argv.task_index
in_workers == hosts_of(argv.worker_hosts)
in_ps == hosts_of(argv.ps_hosts)

Called == pc \in {"configured", "env_set", "training", "crashed"}
Done == pc \in {"configured", "env_set", "training"}

Complete == in_job \in JobChoices /\ in_workers # <<>> /\ in_ps # <<>>
NoneSet == in_job = None /\ in_workers = <<>> /\ in_ps = <<>>
Incomplete ==
    /\ in_job = None \/ in_workers = <<>> \/ in_ps = <<>>
    /\ ~NoneSet

role_list(role) == heap[TF_CONFIG.cluster[role]]

\* a hostname:port pair: one colon, something on both sides of it
WellFormed(e) ==
    /\ Cardinality({i \in 1..Len(e) : e[i] = ":"}) = 1
    /\ e[1] # ":"
    /\ e[Len(e)] # ":"

ColonAt(e) == CHOOSE i \in 1..Len(e) : e[i] = ":"
PortOf(e) == SubSeq(e, ColonAt(e) + 1, Len(e))
Loopback(e) == <<"localhost", ":">> \o PortOf(e)
IsLoopback(e) == Len(e) >= 2 /\ e[1] = "localhost" /\ e[2] = ":"

in_local_list == IF in_job = "worker" THEN in_workers ELSE in_ps
InRange == in_index >= 0 /\ in_index < Len(in_local_list)

\* C1: for a complete input (job_name worker or ps, both host lists
\* non-empty) the builder does not return the empty descriptor; what it
\* returns has task.type and task.index, a master list of exactly one entry
\* that is worker_hosts[0] or its loopback form, a worker list as long as
\* worker_hosts and a ps list as long as ps_hosts, each entry in the place of
\* the input entry it comes from (equal to it, or, for the local node's own
\* entry, a loopback address).
C1_CompleteNeverEmpty ==
    (Done /\ Complete) =>
        /\ TF_CONFIG # EmptyDescriptor
        /\ {"task", "cluster"} \subseteq TF_CONFIG.keys
        /\ TF_CONFIG.task.type \in {in_job, "master"}
        /\ TF_CONFIG.task.index = in_index
        /\ DOMAIN TF_CONFIG.cluster = {"master", "worker", "ps"}
        /\ Len(role_list("master")) = 1
        /\ \/ role_list("master")[1] = in_workers[1]
           \/ IsLoopback(role_list("master")[1])
        /\ Len(role_list("worker")) = Len(in_workers)
        /\ Len(role_list("ps")) = Len(in_ps)
        /\ \A i \in 1..Len(in_workers) :
               \/ role_list("worker")[i] = in_workers[i]
               \/ /\ in_job = "worker"
                  /\ i = PyPos(in_workers, in_index)
                  /\ IsLoopback(role_list("worker")[i])
        /\ \A i \in 1..Len(in_ps) :
               \/ role_list("ps")[i] = in_ps[i]
               \/ /\ in_job = "ps"
                  /\ i = PyPos(in_ps, in_index)
                  /\ IsLoopback(role_list("ps")[i])

C1_Witness ==
    /\ pc = "configured" /\ Complete
    /\ in_job = "ps" /\ in_index = 1
    /\ Len(in_workers) = 2 /\ Len(in_ps) = 2
    /\ TF_CONFIG # EmptyDescriptor

\* C2: for an incomplete input (some but not all of job_name, ps_hosts,
\* worker_hosts set) the builder returns the empty descriptor without
\* failing and hands at least one warning to the logger; every missing field
\* has the warning written for it, and no set field has.
FieldWarned(text) == \E i \in 1..Len(warnings) : warnings[i].text = text
JobNameWarned == FieldWarned(WarnJobName(None).text)
PsHostsWarned == FieldWarned(WarnPsHosts(<<>>).text)
WorkerHostsWarned == FieldWarned(WarnWorkerHosts(<<>>).text)

C2_IncompleteWarnsAndDegrades ==
    (Called /\ Incomplete) =>
        /\ pc # "crashed"
        /\ error = "none"
        /\ TF_CONFIG = EmptyDescriptor
        /\ Len(warnings) >= 1
        /\ JobNameWarned <=> (in_job = None)
        /\ PsHostsWarned <=> (in_ps = <<>>)
        /\ WorkerHostsWarned <=> (in_workers = <<>>)

C2_Witness ==
    /\ pc = "configured" /\ Incomplete
    /\ in_job = "worker" /\ in_ps = <<>> /\ Len(in_workers) = 2
    /\ PsHostsWarned /\ ~WorkerHostsWarned /\ ~JobNameWarned

\* C3: for a complete input on worker index 0 the returned descriptor has
\* task.type "master" and a master entry that is a loopback address; when
\* worker_hosts[0] is a hostname:port pair the entry is "localhost:" followed
\* by that port.  Instance: workers a:1,b:2 give master [localhost:1] and
\* worker [localhost:1, b:2].
C3_WorkerZeroIsMaster ==
    (Done /\ Complete /\ in_job = "worker" /\ in_index = 0) =>
        /\ TF_CONFIG.task.type = "master"
        /\ Len(role_list("master")) = 1
        /\ IsLoopback(role_list("master")[1])
        /\ WellFormed(in_workers[1]) =>
               role_list("master")[1] = Loopback(in_workers[1])
        /\ in_workers = << <<"a", ":", "1">>, <<"b", ":", "2">> >> =>
               /\ role_list("master") = << <<"localhost", ":", "1">> >>
               /\ role_list("worker") =
                      << <<"localhost", ":", "1">>, <<"b", ":", "2">> >>

C3_Witness ==
    /\ pc = "configured" /\ Complete
    /\ in_job = "worker" /\ in_index = 0
    /\ in_workers = << <<"a", ":", "1">>, <<"b", ":", "2">> >>
    /\ in_ps = << <<"b", ":", "2">> >>
    /\ TF_CONFIG.task.type = "master"

\* C4: the builder is total: for job_name None, worker or ps, any
\* task_index >= 0 and any host lists, the call returns and never raises.
C4_NeverRaises ==
    (in_job \in JobChoices \cup {None} /\ in_index >= 0) => pc # "crashed"

\* C5: the configuration is not mutated by the builder: for a complete input
\* and a task_index inside the local role's list, the opts fields hold after
\* the call what they held before it.
opts_value ==
    [job_name |-> opts.job_name, task_index |-> opts.task_index,
     worker_hosts |-> heap[opts.worker_hosts],
     ps_hosts |-> heap[opts.ps_hosts]]

C5_OptsUnchanged ==
    [][(pc = "parsed" /\ Complete /\ InRange /\ pc' = "configured")
           => opts_value' = opts_value]_vars

\* C6: TF_CONFIG is assigned in os.environ exactly once, before main starts,
\* with the JSON text of the descriptor make_tf_config returned ("{}" for
\* the empty descriptor, single-process and degraded mode alike); nothing is
\* assigned before the builder has returned, and when the builder or the
\* argument parser fails, main never starts.
TextBetween(text, open, close) ==
    LET a == CHOOSE i \in 1..Len(text) :
                 text[i] = open /\ \A j \in 1..(i - 1) : text[j] # open
        b == CHOOSE i \in (a + 1)..Len(text) :
                 text[i] = close /\ \A j \in (a + 1)..(i - 1) : text[j] # close
    IN  SubSeq(text, a + 1, b - 1)

C6_EnvSetOnceBeforeMain ==
    /\ pc \in {"start", "parsed", "configured", "exit", "crashed"} =>
           /\ env_writes = 0
           /\ "TF_CONFIG" \notin DOMAIN environ
    /\ pc \in {"env_set", "training"} =>
           /\ env_writes = 1
           /\ "TF_CONFIG" \in DOMAIN environ
           /\ environ["TF_CONFIG"] = json_dumps(TF_CONFIG, heap)
           /\ TF_CONFIG = EmptyDescriptor <=>
                  environ["TF_CONFIG"] = <<"{", "}">>
           /\ TF_CONFIG # EmptyDescriptor =>
                  TextBetween(environ["TF_CONFIG"], "[", "]")
                      = <<"\"">> \o role_list("master")[1] \o <<"\"">>
    /\ pc = "training" => (Done /\ error = "none")
    /\ error # "none" => pc \in {"exit", "crashed"}

C6_Witness ==
    /\ pc = "training" /\ Complete /\ in_job = "worker" /\ in_index = 0
    /\ env_writes = 1
    /\ TextBetween(environ["TF_CONFIG"], "[", "]")
           = <<"\"", "localhost", ":", "1", "\"">>

\* C7: with none of job_name, ps_hosts, worker_hosts set the builder returns
\* exactly the empty descriptor, for every task_index, with no warning and
\* no failure.
C7_NoneSetIsEmpty ==
    (Called /\ NoneSet) =>
        /\ pc # "crashed"
        /\ TF_CONFIG = EmptyDescriptor
        /\ warnings = <<>>

C7_Witness ==
    /\ pc = "configured" /\ NoneSet /\ in_index = 2
    /\ TF_CONFIG = EmptyDescriptor

\* C8: for a complete input with task_index inside the local role's list,
\* the local node's own entry of its role list is a loopback address,
\* "localhost:" followed by the port when the original entry is a
\* hostname:port pair, and every other entry of the worker and ps lists is
\* the input entry; for a ps node or a worker with task_index > 0 task.type
\* stays job_name and the master list stays [worker_hosts[0]].
C8_LoopbackRewriteOnlyLocal ==
    (Done /\ Complete /\ InRange) =>
        LET own == in_index + 1
        IN  /\ IsLoopback(role_list(in_job)[own])
            /\ WellFormed(in_local_list[own]) =>
                   role_list(in_job)[own] = Loopback(in_local_list[own])
            /\ \A i \in 1..Len(in_workers) :
                   (in_job # "worker" \/ i # own) =>
                       role_list("worker")[i] = in_workers[i]
            /\ \A i \in 1..Len(in_ps) :
                   (in_job # "ps" \/ i # own) =>
                       role_list("ps")[i] = in_ps[i]
            /\ (in_job = "ps" \/ in_index > 0) =>
                   /\ TF_CONFIG.task.type = in_job
                   /\ role_list("master") = <<in_workers[1]>>

C8_Witness ==
    /\ pc = "configured" /\ Complete /\ InRange
    /\ in_job = "ps" /\ in_index = 0
    /\ in_ps = << <<"b", ":", "2">>, <<"a", ":", "1">> >>
    /\ in_workers = << <<"a", ":", "1">> >>
    /\ role_list("ps") = << <<"localhost", ":", "2">>, <<"a", ":", "1">> >>
    /\ role_list("master") = << <<"a", ":", "1">> >>

\* C9: when every node of a cluster has built a populated descriptor from
\* the same host lists, exactly one node is tagged "master", the worker with
\* index 0; no ps node and no worker with index > 0 is; all nodes agree on
\* the lengths of the master, worker and ps lists, and two descriptors differ
\* only in the task field and in the two nodes' own entries (the master entry
\* being worker 0's own).
node_list(n, role) == nodes[n].heap[nodes[n].TF_CONFIG.cluster[role]]

AllBuilt ==
    /\ pc = "cluster"
    /\ \A n \in DOMAIN nodes :
           /\ nodes[n].pc = "configured"
           /\ nodes[n].TF_CONFIG # EmptyDescriptor

OwnEntries(n) ==
    {<<n[1], n[2] + 1>>}
    \cup (IF n = <<"worker", 0>> THEN {<<"master", 1>>} ELSE {})

C9_ExactlyOneMaster ==
    AllBuilt =>
        /\ {n \in DOMAIN nodes : nodes[n].TF_CONFIG.task.type = "master"}
               = {<<"worker", 0>>}
        /\ \A n \in DOMAIN nodes :
               n # <<"worker", 0>> => nodes[n].TF_CONFIG.task.type = n[1]
        /\ \A n, m \in DOMAIN nodes : \A role \in {"master", "worker", "ps"} :
               /\ Len(node_list(n, role)) = Len(node_list(m, role))
               /\ \A i \in 1..Len(node_list(n, role)) :
                      <<role, i>> \notin OwnEntries(n) \cup OwnEntries(m) =>
                          node_list(n, role)[i] = node_list(m, role)[i]
        /\ \A n, m \in DOMAIN nodes :
               [nodes[n].TF_CONFIG EXCEPT !.task = PyNone]
                   = [nodes[m].TF_CONFIG EXCEPT !.task = PyNone]

C9_Witness ==
    /\ AllBuilt
    /\ Cardinality(DOMAIN nodes) = 4
    /\ nodes[<<"worker", 0>>].TF_CONFIG.task.type = "master"
    /\ nodes[<<"ps", 0>>].TF_CONFIG.task.type = "ps"

\* C10: model_fn is a three-way switch on the mode: PREDICT gives predictions
\* and no loss, metrics or train op; EVAL gives loss and the accuracy metric
\* and no train op; TRAIN gives loss and a train op and no predictions; each
\* mode gets exactly one of the three results, and the optimizer is created
\* on the TRAIN path only.
IsPredictResult(r) ==
    /\ r.predictions # PyNone /\ r.loss = PyNone
    /\ r.eval_metric_ops = PyNone /\ r.train_op = PyNone
IsEvalResult(r) ==
    /\ r.loss # PyNone /\ r.eval_metric_ops # PyNone
    /\ DOMAIN r.eval_metric_ops = {"accuracy"}
    /\ r.train_op = PyNone
IsTrainResult(r) ==
    /\ r.loss # PyNone /\ r.train_op # PyNone /\ r.predictions = PyNone

C10_ThreeWayDispatch ==
    estimator_spec # PyNone =>
        /\ estimator_spec.mode \in ModeKeys
        /\ IsPredictResult(estimator_spec) <=> estimator_spec.mode = PREDICT
        /\ IsEvalResult(estimator_spec) <=> estimator_spec.mode = EVAL
        /\ IsTrainResult(estimator_spec) <=> estimator_spec.mode = TRAIN
        /\ "AdamOptimizer" \in graph <=> estimator_spec.mode = TRAIN
        /\ "minimize" \in graph <=> estimator_spec.mode = TRAIN

C10_Witness ==
    /\ pc = "training"
    /\ estimator_spec # PyNone
    /\ estimator_spec.mode = EVAL
    /\ IsEvalResult(estimator_spec)
    /\ "AdamOptimizer" \notin graph
====
